---- MODULE Spec2Model ----
(***************************************************************************)
(* A model of the inverted-repeat inference engine of airpg                *)
(* (src/airpg/ir_operations.py, class IROperations).                       *)
(*                                                                         *)
(* A feature is a record                                                   *)
(*   [type, start, end, strand, hasNote, note, hasRpt, rpt_type, pseudo]   *)
(* with [start, end) the half-open location of a simple FeatureLocation.   *)
(* Qualifier texts are sequences of one-character strings, so that         *)
(* str.lower() and the substring test `x in s` are computed and not        *)
(* assumed.  An IR slot holds None, a reference to a feature of the        *)
(* record (by its index: Python object identity) or a SeqFeature built by  *)
(* a stage.                                                                *)
(***************************************************************************)
EXTENDS Integers, Sequences, FiniteSets, TLC

VARIABLES features,      \* rec.features: the record's features, mutable in place
          rec_len,       \* len(rec)
          min_IR_len,    \* the min_IR_len argument
          pc,            \* position in the operation under way
          IRa, IRb,      \* the two IR slots
          outcome,       \* "running", "returned", or the exception that escaped
          ran,           \* the stages that have been called so far
          i,             \* loop cursor of a scan
          junction_type, \* last return value of identify_junction
          rev_comp,      \* the caller's flag: IRb is to be written reverse-complemented
          score_noRC,    \* the caller's similarity score of IRa and IRb
          score_RC,      \* the caller's similarity score of IRa and reverse-complemented IRb
          invocation,    \* which call of identify_inverted_repeats on the record this is
          first_result   \* what the first call on the record handed back

vars == <<features, rec_len, min_IR_len, pc, IRa, IRb, outcome, ran, i, junction_type,
          rev_comp, score_noRC, score_RC, invocation, first_result>>

\* The variables of the calling script, untouched by the IR operations
caller_vars == <<rev_comp, score_noRC, score_RC, invocation, first_result>>

-----------------------------------------------------------------------------
(* Bounds of the model *)

MaxFeatures == 3
MaxRepeatFeatures == 3
MaxJunctionLen == 4
RecLen == 2700

\* def identify_inverted_repeats(self, rec, min_IR_len=1000)
DefaultMinIRLen == 1000
MinIRLens == {DefaultMinIRLen, DefaultMinIRLen - 1}

-----------------------------------------------------------------------------
(* Text: str.lower() and the substring test *)

UpperChars == <<"A","B","C","D","E","F","G","H","I","J","K","L","M",
                "N","O","P","Q","R","S","T","U","V","W","X","Y","Z">>
LowerChars == <<"a","b","c","d","e","f","g","h","i","j","k","l","m",
                "n","o","p","q","r","s","t","u","v","w","x","y","z">>

LowerChar(c) ==
    IF \E k \in 1..Len(UpperChars) : UpperChars[k] = c
    THEN LowerChars[CHOOSE k \in 1..Len(UpperChars) : UpperChars[k] = c]
    ELSE c

\* s.lower()
Lower(s) == [k \in 1..Len(s) |-> LowerChar(s[k])]

\* needle in hay
Contains(hay, needle) ==
    \E k \in 0..(Len(hay) - Len(needle)) : SubSeq(hay, k + 1, k + Len(needle)) = needle

\* any(x in hay for x in needles)
ContainsAny(hay, needles) == \E n \in needles : Contains(hay, n)

-----------------------------------------------------------------------------
(* Identifier lists of the source *)

jlb_hard == { <<"j","l","b">>, <<"l","s","c","-","i","r","b">>, <<"i","r","b","-","l","s","c">> }
jsb_hard == { <<"j","s","b">>, <<"s","s","c","-","i","r","b">>, <<"i","r","b","-","s","s","c">> }
jsa_hard == { <<"j","s","a">>, <<"s","s","c","-","i","r","a">>, <<"i","r","a","-","s","s","c">> }
jla_hard == { <<"j","l","a">>, <<"i","r","a","-","l","s","c">>, <<"l","s","c","-","i","r","a">> }
lsc_soft == { <<"l","s","c","-","i","r">>, <<"i","r","-","l","s","c">> }
ssc_soft == { <<"s","s","c","-","i","r">>, <<"i","r","-","s","s","c">> }

ira_identifiers == { <<"i","r","a">>,
                     <<"i","n","v","e","r","t","e","d"," ","r","e","p","e","a","t"," ","a">> }
irb_identifiers == { <<"i","r","b">>,
                     <<"i","n","v","e","r","t","e","d"," ","r","e","p","e","a","t"," ","b">> }
ssc_identifiers == { <<"s","s","c">>,
                     <<"s","m","a","l","l"," ","s","i","n","g","l","e"," ","c","o","p","y">> }
lsc_identifiers == { <<"l","s","c">>,
                     <<"l","a","r","g","e"," ","s","i","n","g","l","e"," ","c","o","p","y">> }
blacklist == { <<"j","l","b">>, <<"j","s","b">>, <<"j","s","a">>, <<"j","l","a">>,
               <<"j","u","n","c","t","i","o","n">> }
S_inverted == <<"i","n","v","e","r","t","e","d">>
S_repeat == <<"r","e","p","e","a","t">>
S_IR == <<"I","R">>

-----------------------------------------------------------------------------
(* What the stages read off a note.  NoteFacts computes the substring tests *)
(* of the source on the note's text; FactsOf tabulates them per note.        *)

NoteFactsOf(n, low) ==
    [ ira     |-> ContainsAny(low, ira_identifiers),
      irb     |-> ContainsAny(low, irb_identifiers),
      blocked |-> ContainsAny(low, blacklist),
      general |-> (Contains(low, S_inverted) /\ Contains(low, S_repeat)) \/ Contains(n, S_IR),
      ssc     |-> ContainsAny(low, ssc_identifiers),
      lsc     |-> ContainsAny(low, lsc_identifiers),
      jlbHard |-> ContainsAny(low, jlb_hard),
      jsbHard |-> ContainsAny(low, jsb_hard),
      jsaHard |-> ContainsAny(low, jsa_hard),
      jlaHard |-> ContainsAny(low, jla_hard),
      lscSoft |-> ContainsAny(low, lsc_soft),
      sscSoft |-> ContainsAny(low, ssc_soft) ]

NoteFacts(n) == NoteFactsOf(n, Lower(n))

\* The characters of the qualifier texts of the records the model draws:
\* a text is held in a feature as a string, and read through Chars
Chars ==
       ("IRa" :> <<"I","R","a">>)
    @@ ("IRb" :> <<"I","R","b">>)
    @@ ("inverted repeat" :> <<"i","n","v","e","r","t","e","d"," ","r","e","p","e","a","t">>)
    @@ ("inverted repeat A" :> <<"i","n","v","e","r","t","e","d"," ","r","e","p","e","a","t"," ","A">>)
    @@ ("JLB" :> <<"J","L","B">>)
    @@ ("JSB" :> <<"J","S","B">>)
    @@ ("JSA" :> <<"J","S","A">>)
    @@ ("JLA" :> <<"J","L","A">>)
    @@ ("LSC" :> <<"L","S","C">>)
    @@ ("SSC" :> <<"S","S","C">>)
    @@ ("lsc-ir" :> <<"l","s","c","-","i","r">>)
    @@ ("ssc-ir" :> <<"s","s","c","-","i","r">>)
    @@ ("lsc-ir ssc-ir" :> <<"l","s","c","-","i","r"," ","s","s","c","-","i","r">>)
    @@ ("lsc-ir JLB" :> <<"l","s","c","-","i","r"," ","J","L","B">>)
    @@ ("JLA ssc-ir" :> <<"J","L","A"," ","s","s","c","-","i","r">>)
    @@ ("SSC-IRb" :> <<"S","S","C","-","I","R","b">>)
    @@ ("Junction IRb-LSC" :> <<"J","u","n","c","t","i","o","n"," ","I","R","b","-","L","S","C">>)
    @@ ("ycf1" :> <<"y","c","f","1">>)
    @@ ("" :> <<>>)
    @@ ("inverted" :> <<"i","n","v","e","r","t","e","d">>)
    @@ ("Inverted" :> <<"I","n","v","e","r","t","e","d">>)
    @@ ("tandem" :> <<"t","a","n","d","e","m">>)

NoteUniverse ==
    { "IRa", "IRb", "inverted repeat", "inverted repeat A", "JLB", "JSB", "JSA", "JLA", "LSC",
      "SSC", "lsc-ir", "ssc-ir", "lsc-ir ssc-ir", "lsc-ir JLB", "JLA ssc-ir", "SSC-IRb", "Junction IRb-LSC", "ycf1", "" }

FactsOf == [n \in NoteUniverse |-> NoteFacts(Chars[n])]

-----------------------------------------------------------------------------
(* Features, locations and IR slots *)

Feature(type, start, end, hasNote, note, hasRpt, rpt, pseudo) ==
    [ type |-> type, start |-> start, end |-> end, strand |-> 1,
      hasNote |-> hasNote, note |-> note,
      hasRpt |-> hasRpt, rpt_type |-> rpt, pseudo |-> pseudo ]

\* len(feature): the length of a simple location
FLen(f) == f.end - f.start

None == [src |-> "none"]
Ref(k) == [src |-> "feature", idx |-> k]
Built(start, end) == [src |-> "built", start |-> start, end |-> end, strand |-> 1]

\* FeatureLocation(start, end) raises ValueError when start > end
ValidLocation(start, end) == start <= end

SlotStart(feats, ir) == IF ir.src = "feature" THEN feats[ir.idx].start ELSE ir.start
SlotEnd(feats, ir)   == IF ir.src = "feature" THEN feats[ir.idx].end ELSE ir.end
SlotLen(feats, ir)   == SlotEnd(feats, ir) - SlotStart(feats, ir)

Max(x, y) == IF x >= y THEN x ELSE y
Min(x, y) == IF x <= y THEN x ELSE y

\* Python's slice bound: a negative bound counts from the end, and the
\* result is clipped to 0..n
SliceBound(x, n) == IF x < 0 THEN Max(n + x, 0) ELSE Min(x, n)

\* len(ir.extract(rec).seq): the length of rec.seq[start:end]
ExtractLen(feats, ir, n) ==
    Max(0, SliceBound(SlotEnd(feats, ir), n) - SliceBound(SlotStart(feats, ir), n))

IsRepeat(f) == f.type = "repeat_region"
IsMisc(f) == f.type = "misc_feature"
IsMiscNoPseudo(f) == f.type = "misc_feature" /\ ~f.pseudo

\* Lists of features are sequences of indices into rec.features
Indices(feats) == [k \in 1..Len(feats) |-> k]

all_repeat_features(feats) == SelectSeq(Indices(feats), LAMBDA k : IsRepeat(feats[k]))
all_misc_features(feats) == SelectSeq(Indices(feats), LAMBDA k : IsMisc(feats[k]))
all_mf_no_pseudo(feats) == SelectSeq(Indices(feats), LAMBDA k : IsMiscNoPseudo(feats[k]))

\* [mf for mf in idxs if "note" in mf.qualifiers]
WithNote(feats, idxs) == SelectSeq(idxs, LAMBDA k : feats[k].hasNote)
\* [rf for rf in idxs if "rpt_type" in rf.qualifiers]
WithRptType(feats, idxs) == SelectSeq(idxs, LAMBDA k : feats[k].hasRpt)
\* [rf for rf in idxs if not "rpt_type" in rf.qualifiers]
WithoutRptType(feats, idxs) == SelectSeq(idxs, LAMBDA k : ~feats[k].hasRpt)

Pair(a, b) == [a |-> a, b |-> b]

\* The location of the feature a slot holds, as the caller reads it
Interval(feats, ir) ==
    IF ir = None THEN <<>> ELSE <<SlotStart(feats, ir), SlotEnd(feats, ir)>>

\* What a call hands back: the pair it returns, or the exception that escapes
ResultOf(feats, a, b, out) ==
    IF out = "returned"
    THEN [outcome |-> out, a |-> Interval(feats, a), b |-> Interval(feats, b)]
    ELSE [outcome |-> out, a |-> <<>>, b |-> <<>>]

\* No call has handed anything back yet
NoResult == [outcome |-> "running", a |-> <<>>, b |-> <<>>]
Incomplete(pair) == pair.a = None \/ pair.b = None

-----------------------------------------------------------------------------
(* identify_junction *)

\* possible_junctions, in the order the four blocks append to it.  A block
\* appends its role when the note has none of its hard identifiers but one
\* of its soft ones; it is skipped once an earlier block has identified.
\* JLA without soft identifiers of its own
PossibleJunctions_NoSoftJLA(nf) ==
    (IF ~nf.jlbHard /\ nf.lscSoft THEN <<0>> ELSE <<>>)
    \o (IF ~nf.jlbHard /\ ~nf.jsbHard /\ nf.sscSoft THEN <<1>> ELSE <<>>)
    \o (IF ~nf.jlbHard /\ ~nf.jsbHard /\ ~nf.jsaHard /\ nf.sscSoft THEN <<2>> ELSE <<>>)

\* Only the LSC-side soft identifiers are collected
PossibleJunctions_LSCOnly(nf) ==
    (IF ~nf.jlbHard /\ nf.lscSoft THEN <<0>> ELSE <<>>)
    \o (IF ~nf.jlbHard /\ ~nf.jsbHard /\ ~nf.jsaHard /\ ~nf.jlaHard /\ nf.lscSoft
        THEN <<3>> ELSE <<>>)

PossibleJunctions(nf) ==
    (IF ~nf.jlbHard /\ nf.lscSoft THEN <<0>> ELSE <<>>)
    \o (IF ~nf.jlbHard /\ ~nf.jsbHard /\ nf.sscSoft THEN <<1>> ELSE <<>>)
    \o (IF ~nf.jlbHard /\ ~nf.jsbHard /\ ~nf.jsaHard /\ nf.sscSoft THEN <<2>> ELSE <<>>)
    \o (IF ~nf.jlbHard /\ ~nf.jsbHard /\ ~nf.jsaHard /\ ~nf.jlaHard /\ nf.lscSoft
        THEN <<3>> ELSE <<>>)

\* The length test off by one
JunctionSized_OffByOne(f) == FLen(f) <= 3

\* len(feature) < 3
JunctionSized(f) == FLen(f) < 3

\* The range one base short at its lower end
NearRecordEnd_Short(f, n) == f.start > n - 10 /\ f.start < n

\* feature.location.start in range(rec_len - 10, rec_len)
NearRecordEnd(f, n) == f.start >= n - 10 /\ f.start < n

\* Of exactly two candidates the first one picked, JLA among them or not
JunctionTypeOf_FirstOfTwo(f, n, nf, possible) ==
    IF FLen(f) < 3
    THEN IF nf.jlbHard THEN 0
         ELSE IF nf.jsbHard THEN 1
         ELSE IF nf.jsaHard THEN 2
         ELSE IF nf.jlaHard THEN 3
         ELSE IF Len(possible) = 1 THEN possible[1]
         ELSE IF Len(possible) > 1
              THEN IF (\E k \in 1..Len(possible) : possible[k] = 3)
                      /\ f.start >= n - 10 /\ f.start < n
                   THEN 3
                   ELSE IF Len(possible) = 2 THEN possible[1] ELSE 4
         ELSE -1
    ELSE -1

\* The soft candidates consulted before the hard identifiers
JunctionTypeOf_SoftFirst(f, n, nf, possible) ==
    IF FLen(f) < 3
    THEN IF Len(possible) > 1 THEN 4
         ELSE IF Len(possible) = 1 THEN possible[1]
         ELSE IF nf.jlbHard THEN 0
         ELSE IF nf.jsbHard THEN 1
         ELSE IF nf.jsaHard THEN 2
         ELSE IF nf.jlaHard THEN 3
         ELSE -1
    ELSE -1

\* The classification, from what the note holds (nf) and possible_junctions
JunctionTypeOf(f, n, nf, possible) ==
    IF JunctionSized(f)
    THEN IF nf.jlbHard THEN 0
         ELSE IF nf.jsbHard THEN 1
         ELSE IF nf.jsaHard THEN 2
         ELSE IF nf.jlaHard THEN 3
         ELSE IF Len(possible) = 1 THEN possible[1]
         ELSE IF Len(possible) > 1
              THEN IF \E k \in 1..Len(possible) : possible[k] = 3
                   THEN IF NearRecordEnd(f, n) THEN 3
                        ELSE IF Len(possible) = 2 THEN possible[1] ELSE 4
                   ELSE 4
         ELSE -1
    ELSE -1

JunctionTypeFrom(f, n, nf) == JunctionTypeOf(f, n, nf, PossibleJunctions(nf))

\* identify_junction(feature, rec_len) for a feature with a note
IdentifyJunction(f, n) == JunctionTypeFrom(f, n, FactsOf[f.note])

\* identify_junction raises KeyError: qualifiers["note"] of a feature without one
IdentifyJunctionRaises(f) == JunctionSized(f) /\ ~f.hasNote

-----------------------------------------------------------------------------
(* adjust_feature_location *)

\* Both ends moved, so that start and end stay identical
AdjustFeatureLocation_Shifted(f) ==
    IF f.start = f.end THEN [f EXCEPT !.start = f.start - 1, !.end = f.end - 1] ELSE f

\* The body of "if feature:", for a feature that is there
AdjustFeatureLocation(f) ==
    IF f.start = f.end THEN [f EXCEPT !.start = f.start - 1] ELSE f

\* adjust_feature_location(feature): None is handed back as it is
AdjustFeature(x) == IF x = None THEN None ELSE AdjustFeatureLocation(x)

-----------------------------------------------------------------------------
(* infer_irs_from_junctions *)

\* The four junction variables: an index into rec.features, or 0 for None
\* junction_type = None
JunctionTypeNone == 99

NoJunctions == [jlb |-> 0, jsb |-> 0, jsa |-> 0, jla |-> 0]

\* The junction variable that a feature classified as t is stored in
StoreJunction(junc, k, t) ==
    IF t = 0 THEN [junc EXCEPT !.jlb = k]
    ELSE IF t = 1 THEN [junc EXCEPT !.jsb = k]
    ELSE IF t = 2 THEN [junc EXCEPT !.jsa = k]
    ELSE IF t = 3 THEN [junc EXCEPT !.jla = k]
    ELSE junc

JunctionScanStep(feats, k, n, junc) == StoreJunction(junc, k, IdentifyJunction(feats[k], n))

RECURSIVE JunctionScan(_, _, _, _)
JunctionScan(feats, idxs, n, junc) ==
    IF idxs = <<>> THEN junc
    ELSE JunctionScan(feats, Tail(idxs), n, JunctionScanStep(feats, Head(idxs), n, junc))

\* for junction in [jlb_feat, jsb_feat, jsa_feat, jla_feat]: adjust it in place
AdjustJunctions(feats, junc) ==
    [k \in 1..Len(feats) |->
        IF k \in {junc.jlb, junc.jsb, junc.jsa, junc.jla}
        THEN AdjustFeatureLocation(feats[k]) ELSE feats[k]]

\* IRb from the end of the first junction to the start of the second
JunctionIRb_NoOverlap(jlb, jsb) ==
    IF jlb.start < jsb.start
    THEN <<jlb.end, jsb.start>>
    ELSE <<jsb.end, jlb.start>>

\* The location of IRb built from JLB and JSB, <<start, end>>
JunctionIRb(jlb, jsb) ==
    IF jlb.start < jsb.start
    THEN <<jlb.end - 1, jsb.start + 1>>
    ELSE <<jsb.end - 1, jlb.start + 1>>

\* Without JLA, IRa always run from JSA to the end of the record
JunctionIRa_AlwaysToEnd(feats, junc, n) ==
    IF junc.jla # 0
    THEN IF feats[junc.jsa].start < feats[junc.jla].start
         THEN <<feats[junc.jsa].end - 1, feats[junc.jla].start + 1>>
         ELSE <<feats[junc.jla].end - 1, feats[junc.jsa].start + 1>>
    ELSE <<feats[junc.jsa].end - 1, n>>

\* The location of IRa built from JSA and, when present, JLA or JSB
JunctionIRa(feats, junc, n) ==
    LET jsa == feats[junc.jsa] IN
    IF junc.jla # 0
    THEN IF jsa.start < feats[junc.jla].start
         THEN <<jsa.end - 1, feats[junc.jla].start + 1>>
         ELSE <<feats[junc.jla].end - 1, jsa.start + 1>>
    ELSE IF junc.jsb # 0
    THEN IF feats[junc.jsb].start < jsa.start
         THEN <<jsa.end - 1, n>>
         ELSE <<0, jsa.start + 1>>
    ELSE <<jsa.end - 1, n>>

\* IRa built only when JLA was found as well
BuildFromJunctions_NeedsJLA(adj, junc, n) ==
    LET hasB  == junc.jlb # 0 /\ junc.jsb # 0
        hasA  == junc.jsa # 0 /\ junc.jla # 0
        locB  == JunctionIRb(adj[junc.jlb], adj[junc.jsb])
        locA  == JunctionIRa(adj, junc, n)
        okB   == hasB => ValidLocation(locB[1], locB[2])
        okA   == hasA => ValidLocation(locA[1], locA[2])
    IN  [ a     |-> IF hasA /\ okA /\ okB THEN Built(locA[1], locA[2]) ELSE None,
          b     |-> IF hasB /\ okB /\ okA THEN Built(locB[1], locB[2]) ELSE None,
          err   |-> IF okA /\ okB THEN "" ELSE "ValueError",
          feats |-> adj,
          junc  |-> junc ]

\* The IRs built from the junction variables, on the adjusted features
BuildFromJunctions(adj, junc, n) ==
    LET hasB  == junc.jlb # 0 /\ junc.jsb # 0
        hasA  == junc.jsa # 0
        locB  == JunctionIRb(adj[junc.jlb], adj[junc.jsb])
        locA  == JunctionIRa(adj, junc, n)
        okB   == hasB => ValidLocation(locB[1], locB[2])
        okA   == hasA => ValidLocation(locA[1], locA[2])
    IN  [ a     |-> IF hasA /\ okA /\ okB THEN Built(locA[1], locA[2]) ELSE None,
          b     |-> IF hasB /\ okB /\ okA THEN Built(locB[1], locB[2]) ELSE None,
          err   |-> IF okA /\ okB THEN "" ELSE "ValueError",
          feats |-> adj,
          junc  |-> junc ]

AdjustAndBuild(feats, junc, n) == BuildFromJunctions(AdjustJunctions(feats, junc), junc, n)

\* infer_irs_from_junctions(rec_len, all_misc_features): the pair returned,
\* the error raised ("" for none) and the record's features after the call
InferIRsFromJunctions(feats, n) ==
    AdjustAndBuild(feats,
                   JunctionScan(feats, WithNote(feats, all_misc_features(feats)), n, NoJunctions),
                   n)

-----------------------------------------------------------------------------
(* infer_irs_from_single_copy_regions *)

NoRegions == [ssc |-> 0, lsc |-> 0]

IsSSCNote(nf) == nf.ssc /\ ~nf.blocked
\* The LSC identifiers looked up without the blacklist
IsLSCNote_Unfiltered(nf) == nf.lsc

IsLSCNote(nf) == nf.lsc /\ ~nf.blocked

StoreRegion(sc, k, nf) ==
    [ ssc |-> IF IsSSCNote(nf) THEN k ELSE sc.ssc,
      lsc |-> IF IsLSCNote(nf) THEN k ELSE sc.lsc ]

SingleCopyScanStep(feats, k, sc) == StoreRegion(sc, k, FactsOf[feats[k].note])

RECURSIVE SingleCopyScan(_, _, _)
SingleCopyScan(feats, idxs, sc) ==
    IF idxs = <<>> THEN sc
    ELSE SingleCopyScan(feats, Tail(idxs), SingleCopyScanStep(feats, Head(idxs), sc))

\* The location FeatureLocation is called with for IRa, <<start, end>>
SingleCopyIRa(lsc, ssc, n) ==
    IF lsc.start < ssc.start
    THEN <<ssc.end - 1, IF lsc.start = 0 THEN n ELSE lsc.start>>
    ELSE <<lsc.end - 1, ssc.start>>

\* The location FeatureLocation is called with for IRb, <<start, end>>
SingleCopyIRb(lsc, ssc, n) ==
    IF lsc.start < ssc.start
    THEN <<lsc.end - 1, ssc.start>>
    ELSE <<ssc.end - 1, lsc.start>>

\* Both slots built whenever both regions are found, set on entry or not
BuildFromRegions_Overwrite(feats, n, pair, sc) ==
    LET both  == sc.lsc # 0 /\ sc.ssc # 0
        locA  == SingleCopyIRa(feats[sc.lsc], feats[sc.ssc], n)
        locB  == SingleCopyIRb(feats[sc.lsc], feats[sc.ssc], n)
        okA   == both => ValidLocation(locA[1], locA[2])
        okB   == both => ValidLocation(locB[1], locB[2])
    IN  [ a   |-> IF both /\ okA /\ okB THEN Built(locA[1], locA[2]) ELSE pair.a,
          b   |-> IF both /\ okA /\ okB THEN Built(locB[1], locB[2]) ELSE pair.b,
          err |-> IF okA /\ okB THEN "" ELSE "ValueError",
          sc  |-> sc ]

\* The pair built from the regions found, filling the open slots only
BuildFromRegions(feats, n, pair, sc) ==
    LET both  == sc.lsc # 0 /\ sc.ssc # 0
        locA  == SingleCopyIRa(feats[sc.lsc], feats[sc.ssc], n)
        locB  == SingleCopyIRb(feats[sc.lsc], feats[sc.ssc], n)
        newA  == both /\ pair.a = None
        newB  == both /\ pair.b = None
        okA   == newA => ValidLocation(locA[1], locA[2])
        okB   == newB => ValidLocation(locB[1], locB[2])
    IN  [ a   |-> IF newA /\ okA /\ okB THEN Built(locA[1], locA[2]) ELSE pair.a,
          b   |-> IF newB /\ okA /\ okB THEN Built(locB[1], locB[2]) ELSE pair.b,
          err |-> IF okA /\ okB THEN "" ELSE "ValueError",
          sc  |-> sc ]

\* infer_irs_from_single_copy_regions(rec_len, all_mf_no_pseudo, IRa, IRb)
InferIRsFromSingleCopyRegions(feats, n, pair) ==
    BuildFromRegions(feats, n, pair,
                     SingleCopyScan(feats, WithNote(feats, all_mf_no_pseudo(feats)), NoRegions))

-----------------------------------------------------------------------------
(* identify_irs_in_misc_features *)

\* len(misc_feature) > 100
MiscLongEnough(f) == FLen(f) > 100

MiscHardAssign(f, k, pair, nf) ==
    [ a |-> IF pair.a = None /\ nf.ira /\ ~nf.blocked /\ MiscLongEnough(f)
            THEN Ref(k) ELSE pair.a,
      b |-> IF pair.b = None /\ nf.irb /\ ~nf.blocked /\ MiscLongEnough(f)
            THEN Ref(k) ELSE pair.b ]

MiscHardStep(feats, k, pair) == MiscHardAssign(feats[k], k, pair, FactsOf[feats[k].note])

MiscSoftAssign(f, k, pair, nf) ==
    IF nf.general /\ ~nf.blocked /\ MiscLongEnough(f)
    THEN IF pair.b = None THEN [pair EXCEPT !.b = Ref(k)]
         ELSE IF pair.a = None THEN [pair EXCEPT !.a = Ref(k)]
         ELSE pair
    ELSE pair

MiscSoftStep(feats, k, pair) == MiscSoftAssign(feats[k], k, pair, FactsOf[feats[k].note])

RECURSIVE MiscHardScan(_, _, _)
MiscHardScan(feats, idxs, pair) ==
    IF idxs = <<>> THEN pair
    ELSE MiscHardScan(feats, Tail(idxs), MiscHardStep(feats, Head(idxs), pair))

RECURSIVE MiscSoftScan(_, _, _)
MiscSoftScan(feats, idxs, pair) ==
    IF idxs = <<>> THEN pair
    ELSE MiscSoftScan(feats, Tail(idxs), MiscSoftStep(feats, Head(idxs), pair))

\* identify_irs_in_misc_features(all_mf_no_pseudo, IRa, IRb)
MiscSecondStep(feats, idxs, hard) ==
    IF Incomplete(hard) THEN MiscSoftScan(feats, idxs, hard) ELSE hard

MiscBothSteps(feats, idxs, pair) == MiscSecondStep(feats, idxs, MiscHardScan(feats, idxs, pair))

IdentifyIRsInMiscFeatures(feats, pair) ==
    MiscBothSteps(feats, WithNote(feats, all_mf_no_pseudo(feats)), pair)

-----------------------------------------------------------------------------
(* identify_irs_in_repeat_features *)

\* repeat_feature.qualifiers["rpt_type"][0].lower() == "inverted"
IsInverted(f) == Lower(Chars[f.rpt_type]) = S_inverted

\* len(repeat_feature) > min_IR_len
RepeatLongEnough(f, min) == FLen(f) > min

\* The ordinal rule giving IRb to every feature it meets
OrdinalAssign_Overwrite(k, pair) ==
    IF pair.b = None \/ pair.a # None THEN [pair EXCEPT !.b = Ref(k)]
    ELSE [pair EXCEPT !.a = Ref(k)]

\* The ordinal rule with the two slots swapped
OrdinalAssign_IRaFirst(k, pair) ==
    IF pair.a = None THEN [pair EXCEPT !.a = Ref(k)]
    ELSE IF pair.b = None THEN [pair EXCEPT !.b = Ref(k)]
    ELSE pair

\* The assignment when no identifier says which IR the feature is
OrdinalAssign(k, pair) ==
    IF pair.b = None THEN [pair EXCEPT !.b = Ref(k)]
    ELSE IF pair.a = None THEN [pair EXCEPT !.a = Ref(k)]
    ELSE pair

\* One iteration of the loop over the features with a rpt_type qualifier
RepeatAssign1(f, k, pair, min, nf) ==
    IF IsInverted(f) /\ RepeatLongEnough(f, min)
    THEN IF f.hasNote
         THEN IF nf.ira THEN [pair EXCEPT !.a = Ref(k)]
              ELSE IF nf.irb THEN [pair EXCEPT !.b = Ref(k)]
              ELSE OrdinalAssign(k, pair)
         ELSE OrdinalAssign(k, pair)
    ELSE pair

RepeatStep1(feats, k, pair, min) == RepeatAssign1(feats[k], k, pair, min, FactsOf[feats[k].note])

\* The ordinal rule for every feature that does not say which IR it is
RepeatAssign2_OrdinalForAll(f, k, pair, nf) ==
    IF f.hasNote
    THEN IF nf.ira THEN [pair EXCEPT !.a = Ref(k)]
         ELSE IF nf.irb THEN [pair EXCEPT !.b = Ref(k)]
         ELSE OrdinalAssign(k, pair)
    ELSE OrdinalAssign(k, pair)

\* One iteration of the loop over the features without a rpt_type qualifier
RepeatAssign2(f, k, pair, nf) ==
    IF f.hasNote
    THEN IF nf.ira THEN [pair EXCEPT !.a = Ref(k)]
         ELSE IF nf.irb THEN [pair EXCEPT !.b = Ref(k)]
         ELSE IF nf.general THEN OrdinalAssign(k, pair)
         ELSE pair
    ELSE pair

RepeatStep2(feats, k, pair) == RepeatAssign2(feats[k], k, pair, FactsOf[feats[k].note])

RECURSIVE RepeatScan1(_, _, _, _)
RepeatScan1(feats, idxs, pair, min) ==
    IF idxs = <<>> THEN pair
    ELSE RepeatScan1(feats, Tail(idxs), RepeatStep1(feats, Head(idxs), pair, min), min)

RECURSIVE RepeatScan2(_, _, _)
RepeatScan2(feats, idxs, pair) ==
    IF idxs = <<>> THEN pair
    ELSE RepeatScan2(feats, Tail(idxs), RepeatStep2(feats, Head(idxs), pair))

\* identify_irs_in_repeat_features(all_repeat_features, IRa, IRb, min_IR_len)
RepeatSecondPass(feats, idxs, first) ==
    IF Incomplete(first)
    THEN RepeatScan2(feats, WithoutRptType(feats, idxs), first)
    ELSE first

RepeatBothPasses(feats, idxs, pair, min) ==
    RepeatSecondPass(feats, idxs, RepeatScan1(feats, WithRptType(feats, idxs), pair, min))

IdentifyIRsInRepeatFeatures(feats, pair, min) ==
    RepeatBothPasses(feats, all_repeat_features(feats), pair, min)

-----------------------------------------------------------------------------
(* identify_inverted_repeats, one step per stage *)

FAIL_NO_FEATURES  == "Record does not contain any features which the IR are typically marked with (i.e., feature repeat_region, misc_feature)."
FAIL_NO_NOTE      == "Record does not contain any qualifiers for feature misc_feature which the IRs are typically named with (i.e., qualifier note)."
FAIL_NO_SC        == "Record does not contain any features which the single-copy regions are typically marked with (i.e., feature misc_feature)."
FAIL_INSUFFICIENT == "Record does not contain the information necessary to infer the position of either the IR or the single-copy regions."

StructuralFailures == {FAIL_NO_FEATURES, FAIL_NO_NOTE, FAIL_NO_SC, FAIL_INSUFFICIENT}

\* "note" in the flattened list of the qualifier keys of all misc_features
AnyMiscNote(feats) == \E k \in 1..Len(feats) : IsMisc(feats[k]) /\ feats[k].hasNote

\* The sanity check left out
SanityCheck_Skipped(feats, ir, n, min) == ir

\* The sanity check on one slot: an IR whose extracted sequence is shorter
\* than min_IR_len is discarded
SanityCheck(feats, ir, n, min) ==
    IF ir # None /\ ExtractLen(feats, ir, n) < min THEN None ELSE ir

\* The precondition tested on the record's feature list, not on the two
\* filtered lists
NoIRBearingFeatures_Unfiltered(feats) == Len(feats) = 0

\* len(all_repeat_features) == 0 and len(all_misc_features) == 0
NoIRBearingFeatures(feats) ==
    Len(all_repeat_features(feats)) = 0 /\ Len(all_misc_features(feats)) = 0

\* The test made with 'or' in place of 'and'
NoIRFound_Either(a, b) == a = None \/ b = None

\* if IRa is None and IRb is None, before the misc_features are looked at
NoIRFound(a, b) == a = None /\ b = None

\* if IRa is None or IRb is None, before each later stage
MiscStageNeeded(a, b) == a = None \/ b = None
\* The junction stage run whatever the slots hold
JunctionStageNeeded_Always(a, b) == TRUE

JunctionStageNeeded(a, b) == a = None \/ b = None
SingleCopyStageNeeded(a, b) == a = None \/ b = None

\* len(all_mf_no_pseudo) == 0, and IRa is None and IRb is None
NoSingleCopyFeatures(feats, a, b) ==
    Len(all_mf_no_pseudo(feats)) = 0 /\ a = None /\ b = None

\* The final test raising as soon as one slot is empty
InsufficientInformation_Either(a, b) == a = None \/ b = None

\* if IRa is None and IRb is None, at the end of the call
InsufficientInformation(a, b) == a = None /\ b = None

Raise(reason) ==
    /\ outcome' = reason
    /\ pc' = "done"

\* IRa, IRb = <the pair a stage returns>
SetPair(r) ==
    /\ IRa' = r.a
    /\ IRb' = r.b

\* A builder stage returns its pair, or the error it raised escapes the call
StageResult(r, next) ==
    IF r.err = ""
    THEN SetPair(r) /\ pc' = next /\ UNCHANGED outcome
    ELSE Raise(r.err) /\ UNCHANGED <<IRa, IRb>>

\* rec.features after infer_irs_from_junctions has adjusted the junctions it found
AdjustedFeatures(feats, n) ==
    AdjustJunctions(feats,
                    JunctionScan(feats, WithNote(feats, all_misc_features(feats)), n, NoJunctions))

\* STEP 1: parse out the relevant features; raise when there is none
Step1_Parse ==
    /\ pc = "start"
    /\ IF NoIRBearingFeatures(features)
       THEN Raise(FAIL_NO_FEATURES)
       ELSE pc' = "repeat" /\ UNCHANGED outcome
    /\ UNCHANGED <<features, rec_len, min_IR_len, IRa, IRb, ran, i, junction_type>>
    /\ UNCHANGED caller_vars

\* STEP 2: the repeat_region features
Step2_RepeatFeatures ==
    /\ pc = "repeat"
    /\ SetPair(IdentifyIRsInRepeatFeatures(features, Pair(IRa, IRb), min_IR_len))
    /\ ran' = ran \cup {"repeat"}
    /\ pc' = "note_check"
    /\ UNCHANGED <<features, rec_len, min_IR_len, outcome, i, junction_type>>
    /\ UNCHANGED caller_vars

\* If no IR was found, the misc_features must have a note qualifier
NoteCheck ==
    /\ pc = "note_check"
    /\ IF NoIRFound(IRa, IRb) /\ ~AnyMiscNote(features)
       THEN Raise(FAIL_NO_NOTE)
       ELSE pc' = "misc" /\ UNCHANGED outcome
    /\ UNCHANGED <<features, rec_len, min_IR_len, IRa, IRb, ran, i, junction_type>>
    /\ UNCHANGED caller_vars

\* STEP 3: the misc_features, when a slot is open
Step3_MiscFeatures ==
    /\ pc = "misc"
    /\ IF MiscStageNeeded(IRa, IRb)
       THEN /\ SetPair(IdentifyIRsInMiscFeatures(features, Pair(IRa, IRb)))
            /\ ran' = ran \cup {"misc"}
       ELSE UNCHANGED <<IRa, IRb, ran>>
    /\ pc' = "sanity1"
    /\ UNCHANGED <<features, rec_len, min_IR_len, outcome, i, junction_type>>
    /\ UNCHANGED caller_vars

\* The sanity check after a stage
Sanity(from, to) ==
    /\ pc = from
    /\ IRa' = SanityCheck(features, IRa, rec_len, min_IR_len)
    /\ IRb' = SanityCheck(features, IRb, rec_len, min_IR_len)
    /\ pc' = to
    /\ UNCHANGED <<features, rec_len, min_IR_len, outcome, ran, i, junction_type>>
    /\ UNCHANGED caller_vars

Sanity1 == Sanity("sanity1", "junctions")
Sanity2 == Sanity("sanity2", "single_copy")
Sanity3 == Sanity("sanity3", "final")

\* STEP 4: the junctions, when a slot is open
Step4_Junctions ==
    /\ pc = "junctions"
    /\ IF JunctionStageNeeded(IRa, IRb)
       THEN /\ StageResult(InferIRsFromJunctions(features, rec_len), "sanity2")
            /\ features' = AdjustedFeatures(features, rec_len)
            /\ ran' = ran \cup {"junctions"}
       ELSE pc' = "sanity2" /\ UNCHANGED <<features, IRa, IRb, ran, outcome>>
    /\ UNCHANGED <<rec_len, min_IR_len, i, junction_type>>
    /\ UNCHANGED caller_vars

\* STEP 5: the single-copy regions, when a slot is open
Step5_SingleCopy ==
    /\ pc = "single_copy"
    /\ IF SingleCopyStageNeeded(IRa, IRb)
       THEN IF NoSingleCopyFeatures(features, IRa, IRb)
            THEN Raise(FAIL_NO_SC) /\ UNCHANGED <<IRa, IRb, ran>>
            ELSE /\ StageResult(InferIRsFromSingleCopyRegions(features, rec_len, Pair(IRa, IRb)),
                                "sanity3")
                 /\ ran' = ran \cup {"single_copy"}
       ELSE pc' = "sanity3" /\ UNCHANGED <<IRa, IRb, ran, outcome>>
    /\ UNCHANGED <<features, rec_len, min_IR_len, i, junction_type>>
    /\ UNCHANGED caller_vars

\* The end of the call: raise when no IR was found, else return the pair
Final ==
    /\ pc = "final"
    /\ IF InsufficientInformation(IRa, IRb)
       THEN Raise(FAIL_INSUFFICIENT)
       ELSE outcome' = "returned" /\ pc' = "done"
    /\ UNCHANGED <<features, rec_len, min_IR_len, IRa, IRb, ran, i, junction_type>>
    /\ UNCHANGED caller_vars

-----------------------------------------------------------------------------
(* The records the pipeline is run on.  A record lists its repeat_region   *)
(* features, then its misc_features, then its other features: the         *)
(* pipeline splits the features by type and keeps the order within a type. *)

\* The layout the features are drawn around: LSC, IRb, SSC, IRa, with IRa
\* ending at the end of the record
IRaStart == RecLen - 1000
SSCStart == IRaStart - 200
IRbStart == SSCStart - 1000

Rpt(start, end, hasNote, note, hasRpt, rpt) ==
    Feature("repeat_region", start, end, hasNote, note, hasRpt, rpt, FALSE)
Misc(start, end, hasNote, note, pseudo) ==
    Feature("misc_feature", start, end, hasNote, note, FALSE, "", pseudo)
Gene(start, end) ==
    Feature("gene", start, end, TRUE, "ycf1", FALSE, "", FALSE)

RepeatUniverse ==
    { Rpt(IRbStart, IRbStart + 1001, FALSE, "", TRUE, "inverted"),
      Rpt(IRaStart, RecLen, FALSE, "", TRUE, "Inverted"),
      Rpt(IRaStart - 1, RecLen, TRUE, "IRa", TRUE, "inverted"),
      Rpt(IRbStart, IRbStart + 999, TRUE, "inverted repeat", FALSE, ""),
      Rpt(IRbStart, IRbStart + 1000, TRUE, "IRb", FALSE, ""),
      Rpt(IRbStart, IRbStart + 1001, FALSE, "", TRUE, "tandem") }

MiscUniverse ==
    { Misc(IRaStart, RecLen, TRUE, "IRa", FALSE),
      Misc(IRbStart, IRbStart + 999, TRUE, "IRb", FALSE),
      Misc(IRbStart, IRbStart + 1000, TRUE, "inverted repeat", FALSE),
      Misc(IRaStart, RecLen, TRUE, "inverted repeat A", TRUE),
      Misc(IRbStart, IRbStart, TRUE, "JLB", FALSE),
      Misc(SSCStart - 2, SSCStart - 1, TRUE, "JSB", FALSE),
      Misc(IRaStart, IRaStart + 1, TRUE, "JSA", FALSE),
      Misc(IRaStart + 1, IRaStart + 2, TRUE, "JSA", FALSE),
      Misc(0, IRbStart + 1, TRUE, "LSC", FALSE),
      Misc(10, IRbStart, TRUE, "LSC", FALSE),
      Misc(SSCStart, IRaStart, TRUE, "SSC", FALSE),
      Misc(600, 700, FALSE, "", FALSE) }

OtherUniverse == { Gene(100, 400) }

SeqsOfLen(S, n) == [1..n -> S]

\* How many features of each kind a record has
Counts ==
    { c \in (0..MaxFeatures) \X (0..MaxFeatures) \X (0..MaxFeatures) :
        c[1] + c[2] + c[3] <= MaxFeatures }

Init ==
    /\ \E c \in Counts :
         \E r \in SeqsOfLen(RepeatUniverse, c[1]),
            m \in SeqsOfLen(MiscUniverse, c[2]),
            g \in SeqsOfLen(OtherUniverse, c[3]) :
              features = r \o m \o g
    /\ rec_len = RecLen
    /\ min_IR_len \in MinIRLens
    /\ pc = "start"
    /\ IRa = None
    /\ IRb = None
    /\ outcome = "running"
    /\ ran = {}
    /\ i = 0
    /\ junction_type = -1
    /\ rev_comp = FALSE
    /\ score_noRC = 0
    /\ score_RC = 0
    /\ invocation = 1
    /\ first_result = NoResult

Next ==
    \/ Step1_Parse
    \/ Step2_RepeatFeatures
    \/ NoteCheck
    \/ Step3_MiscFeatures
    \/ Sanity1
    \/ Step4_Junctions
    \/ Sanity2
    \/ Step5_SingleCopy
    \/ Sanity3
    \/ Final

Spec == Init /\ [][Next]_vars

-----------------------------------------------------------------------------
(* identify_inverted_repeats called twice on the same record object: the   *)
(* second call starts from rec.features as the first call left them        *)
(* (specification SpecTwice)                                               *)

\* Records with junctions given as points, at the record's end and elsewhere
TwiceUniverse ==
    { Misc(RecLen - 10, RecLen - 10, TRUE, "lsc-ir", FALSE),
      Misc(IRbStart, IRbStart, TRUE, "JLB", FALSE),
      Misc(SSCStart, SSCStart, TRUE, "JSB", FALSE),
      Misc(IRaStart, IRaStart, TRUE, "JSA", FALSE),
      Misc(RecLen - 1, RecLen, TRUE, "JLA", FALSE),
      Misc(0, IRbStart + 1, TRUE, "LSC", FALSE),
      Misc(SSCStart, IRaStart, TRUE, "SSC", FALSE),
      Rpt(IRaStart - 1, RecLen, TRUE, "IRa", TRUE, "inverted") }

InitTwice ==
    /\ \E c \in 0..MaxFeatures : features \in SeqsOfLen(TwiceUniverse, c)
    /\ rec_len = RecLen
    /\ min_IR_len = DefaultMinIRLen
    /\ pc = "start"
    /\ IRa = None
    /\ IRb = None
    /\ outcome = "running"
    /\ ran = {}
    /\ i = 0
    /\ junction_type = JunctionTypeNone
    /\ rev_comp = FALSE
    /\ score_noRC = 0
    /\ score_RC = 0
    /\ invocation = 1
    /\ first_result = NoResult

\* The caller keeps what the first call handed back and calls again on the
\* same record: IRa = None, IRb = None, rec.features as they are
InvokeAgain ==
    /\ pc = "done"
    /\ invocation = 1
    /\ first_result' = ResultOf(features, IRa, IRb, outcome)
    /\ invocation' = invocation + 1
    /\ IRa' = None
    /\ IRb' = None
    /\ outcome' = "running"
    /\ ran' = {}
    /\ pc' = "start"
    /\ UNCHANGED <<features, rec_len, min_IR_len, i, junction_type>>
    /\ UNCHANGED <<rev_comp, score_noRC, score_RC>>

NextTwice ==
    \/ Step1_Parse
    \/ Step2_RepeatFeatures
    \/ NoteCheck
    \/ Step3_MiscFeatures
    \/ Sanity1
    \/ Step4_Junctions
    \/ Sanity2
    \/ Step5_SingleCopy
    \/ Sanity3
    \/ Final
    \/ InvokeAgain

SpecTwice == InitTwice /\ [][NextTwice]_vars

-----------------------------------------------------------------------------
(* identify_irs_in_repeat_features, one step per loop iteration *)

RepeatNotes == {"IRa", "IRb", "inverted repeat", "ycf1"}
RepeatLens == {DefaultMinIRLen, DefaultMinIRLen + 1}

RepeatScanUniverse ==
    { Rpt(IRbStart, IRbStart + l, TRUE, t, TRUE, "inverted") : l \in RepeatLens, t \in RepeatNotes }
    \cup { Rpt(IRbStart, IRbStart + l, FALSE, "", TRUE, "inverted") : l \in RepeatLens }
    \cup { Rpt(IRbStart, IRbStart + DefaultMinIRLen, TRUE, t, FALSE, "") : t \in RepeatNotes }
    \cup { Rpt(IRbStart, IRbStart + DefaultMinIRLen, FALSE, "", FALSE, "") }
    \cup { Rpt(IRbStart, IRbStart + DefaultMinIRLen + 1, FALSE, "", TRUE, "tandem") }

InitRepeat ==
    /\ \E n \in 0..MaxRepeatFeatures : features \in SeqsOfLen(RepeatScanUniverse, n)
    /\ rec_len = RecLen
    /\ min_IR_len \in MinIRLens
    /\ pc = "pass1"
    /\ IRa = None
    /\ IRb = None
    /\ outcome = "running"
    /\ ran = {}
    /\ i = 1
    /\ junction_type = JunctionTypeNone
    /\ rev_comp = FALSE
    /\ score_noRC = 0
    /\ score_RC = 0
    /\ invocation = 1
    /\ first_result = NoResult

\* The features the first loop goes over
Pass1List(feats) == WithRptType(feats, all_repeat_features(feats))
\* The features the second loop goes over
Pass2List(feats) == WithoutRptType(feats, all_repeat_features(feats))

Pass1_Iterate ==
    /\ pc = "pass1"
    /\ i <= Len(Pass1List(features))
    /\ SetPair(RepeatStep1(features, Pass1List(features)[i], Pair(IRa, IRb), min_IR_len))
    /\ i' = i + 1
    /\ UNCHANGED <<features, rec_len, min_IR_len, pc, outcome, ran, junction_type>>
    /\ UNCHANGED caller_vars

Pass1_End ==
    /\ pc = "pass1"
    /\ i > Len(Pass1List(features))
    /\ IF Incomplete(Pair(IRa, IRb))
       THEN pc' = "pass2" /\ UNCHANGED outcome
       ELSE pc' = "done" /\ outcome' = "returned"
    /\ i' = 1
    /\ UNCHANGED <<features, rec_len, min_IR_len, IRa, IRb, ran, junction_type>>
    /\ UNCHANGED caller_vars

Pass2_Iterate ==
    /\ pc = "pass2"
    /\ i <= Len(Pass2List(features))
    /\ SetPair(RepeatStep2(features, Pass2List(features)[i], Pair(IRa, IRb)))
    /\ i' = i + 1
    /\ UNCHANGED <<features, rec_len, min_IR_len, pc, outcome, ran, junction_type>>
    /\ UNCHANGED caller_vars

Pass2_End ==
    /\ pc = "pass2"
    /\ i > Len(Pass2List(features))
    /\ pc' = "done"
    /\ outcome' = "returned"
    /\ UNCHANGED <<features, rec_len, min_IR_len, IRa, IRb, ran, i, junction_type>>
    /\ UNCHANGED caller_vars

NextRepeat ==
    \/ Pass1_Iterate
    \/ Pass1_End
    \/ Pass2_Iterate
    \/ Pass2_End

SpecRepeat == InitRepeat /\ [][NextRepeat]_vars

-----------------------------------------------------------------------------
(* identify_junction, applied to one feature *)

JunctionStarts == {0, IRbStart, RecLen - 11, RecLen - 10, RecLen - 1, RecLen}

JunctionUniverse ==
    { Misc(s, s + l, TRUE, t, FALSE) : s \in JunctionStarts, l \in 0..MaxJunctionLen, t \in NoteUniverse }
    \cup { Misc(s, s + l, FALSE, "", FALSE) : s \in JunctionStarts, l \in 0..MaxJunctionLen }

InitJunction ==
    /\ \E f \in JunctionUniverse : f.end <= RecLen /\ features = <<f>>
    /\ rec_len = RecLen
    /\ min_IR_len = DefaultMinIRLen
    /\ pc = "classify"
    /\ IRa = None
    /\ IRb = None
    /\ outcome = "running"
    /\ ran = {}
    /\ i = 1
    /\ junction_type = JunctionTypeNone
    /\ rev_comp = FALSE
    /\ score_noRC = 0
    /\ score_RC = 0
    /\ invocation = 1
    /\ first_result = NoResult

Classify ==
    /\ pc = "classify"
    /\ IF IdentifyJunctionRaises(features[1])
       THEN outcome' = "KeyError" /\ UNCHANGED junction_type
       ELSE outcome' = "returned" /\ junction_type' = IdentifyJunction(features[1], rec_len)
    /\ pc' = "done"
    /\ UNCHANGED <<features, rec_len, min_IR_len, IRa, IRb, ran, i>>
    /\ UNCHANGED caller_vars

NextJunction == Classify

SpecJunction == InitJunction /\ [][NextJunction]_vars

-----------------------------------------------------------------------------
(* infer_irs_from_junctions, applied to the misc_features of a record *)

JunctionFeatureUniverse ==
    { Misc(IRbStart, IRbStart, TRUE, "JLB", FALSE),
      Misc(0, 0, TRUE, "lsc-ir JLB", FALSE),
      Misc(SSCStart - 1, SSCStart + 1, TRUE, "JSB", FALSE),
      Misc(SSCStart, SSCStart, TRUE, "SSC-IRb", FALSE),
      Misc(IRaStart, IRaStart, TRUE, "JSA", FALSE),
      Misc(100, 101, TRUE, "JSA", FALSE),
      Misc(RecLen - 1, RecLen, TRUE, "JLA", FALSE),
      Misc(IRbStart - 1, IRbStart, TRUE, "lsc-ir", FALSE),
      Misc(RecLen - 1, RecLen, TRUE, "lsc-ir", FALSE),
      Misc(IRaStart, IRaStart, TRUE, "ssc-ir", FALSE),
      Misc(IRaStart, IRaStart + 3, TRUE, "JSA", FALSE),
      Misc(IRaStart, IRaStart, FALSE, "", FALSE),
      Misc(RecLen - 2, RecLen - 2, TRUE, "JLB", FALSE) }

InitJunctionIRs ==
    /\ \E c \in 0..MaxFeatures : features \in SeqsOfLen(JunctionFeatureUniverse, c)
    /\ rec_len = RecLen
    /\ min_IR_len = DefaultMinIRLen
    /\ pc = "infer"
    /\ IRa = None
    /\ IRb = None
    /\ outcome = "running"
    /\ ran = {}
    /\ i = 0
    /\ junction_type = JunctionTypeNone
    /\ rev_comp = FALSE
    /\ score_noRC = 0
    /\ score_RC = 0
    /\ invocation = 1
    /\ first_result = NoResult

\* IRa, IRb = infer_irs_from_junctions(len(rec), all_misc_features)
InferFromJunctions ==
    /\ pc = "infer"
    /\ StageResult(InferIRsFromJunctions(features, rec_len), "returned")
    /\ features' = AdjustedFeatures(features, rec_len)
    /\ ran' = ran \cup {"junctions"}
    /\ UNCHANGED <<rec_len, min_IR_len, i, junction_type>>
    /\ UNCHANGED caller_vars

NextJunctionIRs == InferFromJunctions

SpecJunctionIRs == InitJunctionIRs /\ [][NextJunctionIRs]_vars

-----------------------------------------------------------------------------
(* The two stages that are handed the pair found so far,                   *)
(* identify_irs_in_misc_features and infer_irs_from_single_copy_regions,   *)
(* each applied to the misc_features of a record and a pair                *)

FillUniverse ==
    { Misc(0, IRbStart + 1, TRUE, "LSC", FALSE),
      Misc(10, IRbStart, TRUE, "LSC", FALSE),
      Misc(IRaStart, IRaStart + 300, TRUE, "LSC", FALSE),
      Misc(0, IRbStart, TRUE, "lsc-ir JLB", FALSE),
      Misc(SSCStart, IRaStart, TRUE, "SSC", FALSE),
      Misc(0, 200, TRUE, "SSC", FALSE),
      Misc(SSCStart, IRaStart, TRUE, "SSC", TRUE),
      Misc(IRaStart, RecLen, TRUE, "IRa", FALSE),
      Misc(IRbStart, IRbStart + 100, TRUE, "IRb", FALSE),
      Misc(IRbStart, IRbStart + 101, TRUE, "IRb", FALSE),
      Misc(IRbStart, SSCStart, TRUE, "inverted repeat", FALSE),
      Misc(IRbStart, SSCStart, TRUE, "Junction IRb-LSC", FALSE),
      Misc(600, 700, FALSE, "", FALSE) }

\* The IRs an earlier stage may have left in the pair
EntryIRa == Built(IRaStart, RecLen)
EntryIRb == Built(IRbStart + 1, SSCStart)

InitFill ==
    /\ \E c \in 0..MaxFeatures : features \in SeqsOfLen(FillUniverse, c)
    /\ rec_len = RecLen
    /\ min_IR_len = DefaultMinIRLen
    /\ pc = "fill"
    /\ IRa \in {None, EntryIRa}
    /\ IRb \in {None, EntryIRb}
    /\ outcome = "running"
    /\ ran = {}
    /\ i = 0
    /\ junction_type = JunctionTypeNone
    /\ rev_comp = FALSE
    /\ score_noRC = 0
    /\ score_RC = 0
    /\ invocation = 1
    /\ first_result = NoResult

\* IRa, IRb = identify_irs_in_misc_features(all_mf_no_pseudo, IRa, IRb)
FillFromMiscFeatures ==
    /\ pc = "fill"
    /\ SetPair(IdentifyIRsInMiscFeatures(features, Pair(IRa, IRb)))
    /\ pc' = "returned"
    /\ ran' = {"misc"}
    /\ UNCHANGED <<features, rec_len, min_IR_len, outcome, i, junction_type>>
    /\ UNCHANGED caller_vars

\* IRa, IRb = infer_irs_from_single_copy_regions(len(rec), all_mf_no_pseudo, IRa, IRb)
FillFromSingleCopyRegions ==
    /\ pc = "fill"
    /\ StageResult(InferIRsFromSingleCopyRegions(features, rec_len, Pair(IRa, IRb)), "returned")
    /\ ran' = {"single_copy"}
    /\ UNCHANGED <<features, rec_len, min_IR_len, i, junction_type>>
    /\ UNCHANGED caller_vars

NextFill ==
    \/ FillFromMiscFeatures
    \/ FillFromSingleCopyRegions

SpecFill == InitFill /\ [][NextFill]_vars

-----------------------------------------------------------------------------
(* The calling script, airpg_analyze: for one record it identifies the IRs, *)
(* scores IRa against IRb and against reverse-complemented IRb, and writes  *)
(* the IRs out                                                               *)

\* fuzz.ratio returns a whole number from 0 upwards; the model stops at MaxScore
MaxScore == 10
ScoreValues == 0..MaxScore

\* What identify_inverted_repeats can hand back: a pair with a slot set
ReturnedPairs ==
    { p \in [a : {None, EntryIRa}, b : {None, EntryIRb}] : p.a # None \/ p.b # None }

\* What can escape identify_inverted_repeats
EscapingErrors == StructuralFailures \cup {"ValueError"}

InitAnalyze ==
    /\ features = <<>>
    /\ rec_len = RecLen
    /\ min_IR_len = DefaultMinIRLen
    /\ pc = "identify"
    /\ IRa = None
    /\ IRb = None
    /\ outcome = "running"
    /\ ran = {}
    /\ i = 0
    /\ junction_type = JunctionTypeNone
    /\ rev_comp = FALSE
    /\ score_noRC = 0
    /\ score_RC = 0
    /\ invocation = 1
    /\ first_result = NoResult

\* ira_feature, irb_feature = iro.identify_inverted_repeats(rec, 1000); rev_comp = False
Analyze_Identify ==
    /\ pc = "identify"
    /\ \/ \E p \in ReturnedPairs :
            /\ SetPair(p)
            /\ rev_comp' = FALSE
            /\ pc' = "score"
            /\ UNCHANGED outcome
       \/ \E e \in EscapingErrors :
            /\ outcome' = e
            /\ pc' = "skipped"
            /\ UNCHANGED <<IRa, IRb, rev_comp>>
    /\ UNCHANGED <<features, rec_len, min_IR_len, ran, i, junction_type, score_noRC, score_RC>>
    /\ UNCHANGED <<invocation, first_result>>

\* if ira_feature and irb_feature: the two scores
Analyze_Score ==
    /\ pc = "score"
    /\ IF IRa # None /\ IRb # None
       THEN /\ score_noRC' \in ScoreValues
            /\ score_RC' \in ScoreValues
            /\ pc' = "compare"
       ELSE pc' = "write" /\ UNCHANGED <<score_noRC, score_RC>>
    /\ UNCHANGED <<features, rec_len, min_IR_len, IRa, IRb, outcome, ran, i, junction_type,
                   rev_comp>>
    /\ UNCHANGED <<invocation, first_result>>

\* Reverse-complemented IRb scores no higher, or only equal
ReverseComplementScoresHigher_OrEqual(noRC, RC) == noRC <= RC

\* score_noRC < score_RC
ReverseComplementScoresHigher(noRC, RC) == noRC < RC

\* if score_noRC < score_RC: rev_comp = True
Analyze_Compare ==
    /\ pc = "compare"
    /\ rev_comp' = IF ReverseComplementScoresHigher(score_noRC, score_RC) THEN TRUE ELSE rev_comp
    /\ pc' = "write"
    /\ UNCHANGED <<features, rec_len, min_IR_len, IRa, IRb, outcome, ran, i, junction_type,
                   score_noRC, score_RC>>
    /\ UNCHANGED <<invocation, first_result>>

\* iro.write_irs_to_fasta(rec, ira_feature, irb_feature, acc_folder, rev_comp)
Analyze_Write ==
    /\ pc = "write"
    /\ pc' = "done"
    /\ outcome' = "returned"
    /\ UNCHANGED <<features, rec_len, min_IR_len, IRa, IRb, ran, i, junction_type,
                   rev_comp, score_noRC, score_RC>>
    /\ UNCHANGED <<invocation, first_result>>

NextAnalyze ==
    \/ Analyze_Identify
    \/ Analyze_Score
    \/ Analyze_Compare
    \/ Analyze_Write

SpecAnalyze == InitAnalyze /\ [][NextAnalyze]_vars

-----------------------------------------------------------------------------
(* adjust_feature_location, applied repeatedly to one feature or to None *)

MaxAdjustCalls == 2

AdjustStarts == {0, 1, IRbStart, SSCStart, IRaStart, RecLen - MaxJunctionLen}

AdjustUniverse ==
    { [Misc(s, s + l, TRUE, "JLB", FALSE) EXCEPT !.strand = d] :
        s \in AdjustStarts, l \in 0..MaxJunctionLen, d \in {1, -1} }
    \cup { None }

InitAdjust ==
    /\ \E f \in AdjustUniverse : features = <<f>>
    /\ rec_len = RecLen
    /\ min_IR_len = DefaultMinIRLen
    /\ pc = "adjust"
    /\ IRa = None
    /\ IRb = None
    /\ outcome = "running"
    /\ ran = {}
    /\ i = 0
    /\ junction_type = JunctionTypeNone
    /\ rev_comp = FALSE
    /\ score_noRC = 0
    /\ score_RC = 0
    /\ invocation = 1
    /\ first_result = NoResult

\* One call of adjust_feature_location on the feature the last call returned
AdjustCall ==
    /\ pc = "adjust"
    /\ i < MaxAdjustCalls
    /\ features' = <<AdjustFeature(features[1])>>
    /\ i' = i + 1
    /\ pc' = IF i + 1 = MaxAdjustCalls THEN "done" ELSE "adjust"
    /\ outcome' = IF i + 1 = MaxAdjustCalls THEN "returned" ELSE "running"
    /\ UNCHANGED <<rec_len, min_IR_len, IRa, IRb, ran, junction_type>>
    /\ UNCHANGED caller_vars

NextAdjust == AdjustCall

SpecAdjust == InitAdjust /\ [][NextAdjust]_vars

-----------------------------------------------------------------------------
(* Properties of identify_inverted_repeats (specification Spec) *)

\* The call has returned a pair
Returned == pc = "done" /\ outcome = "returned"

\* C1: every IR slot that is set in the pair identify_inverted_repeats
\* returns has a length of at least min_IR_len.
C1_ReturnedIRsAreLongEnough ==
    Returned =>
        /\ (IRa # None => SlotLen(features, IRa) >= min_IR_len)
        /\ (IRb # None => SlotLen(features, IRb) >= min_IR_len)

\* A pair is returned whose IRa is exactly min_IR_len long, from a record
\* that also holds a repeat_region or misc_feature candidate that is shorter
C1_Witness ==
    /\ Returned
    /\ IRa # None
    /\ SlotLen(features, IRa) = min_IR_len
    /\ IRb = None
    /\ \E k \in 1..Len(features) :
         /\ features[k].type \in {"repeat_region", "misc_feature"}
         /\ FLen(features[k]) > 100
         /\ FLen(features[k]) < min_IR_len

\* C2: a record without any repeat_region and without any misc_feature makes
\* the call raise the failure that names the two feature types, before any
\* stage has run.
C2_NoFeaturesFailsFirst ==
    (/\ pc # "start"
     /\ \A k \in 1..Len(features) : features[k].type \notin {"repeat_region", "misc_feature"})
    =>
        /\ pc = "done"
        /\ outcome = FAIL_NO_FEATURES
        /\ ran = {}
        /\ IRa = None
        /\ IRb = None

\* The call has failed on a record that has features, none of them a
\* repeat_region or a misc_feature
C2_Witness ==
    /\ pc = "done"
    /\ outcome = FAIL_NO_FEATURES
    /\ Len(features) > 0
    /\ \A k \in 1..Len(features) : features[k].type = "gene"

\* C3: at the end of the pipeline the call raises the 'insufficient
\* information' failure when both slots are empty, and never returns an empty
\* pair; when exactly one slot is set it returns the pair as it is.
C3_EndOfPipeline ==
    [][pc = "final" =>
         /\ pc' = "done"
         /\ (IRa = None /\ IRb = None) => outcome' = FAIL_INSUFFICIENT
         /\ (IRa = None /\ IRb # None) \/ (IRa # None /\ IRb = None)
                => outcome' = "returned" /\ IRa' = IRa /\ IRb' = IRb
         /\ outcome' = "returned" => ~(IRa' = None /\ IRb' = None)]_vars

\* A pair with exactly one slot set has been returned
C3_Witness ==
    /\ Returned
    /\ (IRa = None /\ IRb # None) \/ (IRa # None /\ IRb = None)

\* C4 (as claimed): every call ends with a returned pair or with one of the
\* four structural failures; no other error escapes.
C4_OnlyPairOrStructuralFailure ==
    pc = "done" => outcome \in {"returned"} \cup StructuralFailures

\* A feature that is IR evidence on its own: a repeat_region of
\* rpt_type=inverted, or a misc_feature (not pseudo) whose note names an IR
IsDirectCandidate(f) ==
    \/ f.type = "repeat_region" /\ f.hasRpt /\ IsInverted(f)
    \/ /\ f.type = "misc_feature" /\ ~f.pseudo /\ f.hasNote
       /\ (FactsOf[f.note].ira \/ FactsOf[f.note].irb \/ FactsOf[f.note].general)
       /\ ~FactsOf[f.note].blocked

\* C5 (as claimed): with min_IR_len = 1000, a record whose only feature is an
\* IR candidate has the candidate returned when it is 1000 long or longer, and
\* nothing returned when it is shorter.
C5_BoundaryAtDefault ==
    (/\ pc = "done"
     /\ min_IR_len = DefaultMinIRLen
     /\ Len(features) = 1
     /\ IsDirectCandidate(features[1]))
    => IF FLen(features[1]) >= DefaultMinIRLen
       THEN outcome = "returned" /\ Ref(1) \in {IRa, IRb}
       ELSE outcome # "returned"

\* C7: once both slots hold IRs of length >= min_IR_len, no further stage
\* runs, the record is left alone and the call returns exactly that pair.
BothResolved ==
    /\ IRa # None
    /\ IRb # None
    /\ SlotLen(features, IRa) >= min_IR_len
    /\ SlotLen(features, IRb) >= min_IR_len

C7_StopsWhenBothResolved ==
    [][(pc # "done" /\ BothResolved) =>
          /\ IRa' = IRa
          /\ IRb' = IRb
          /\ ran' = ran
          /\ features' = features
          /\ outcome' = IF pc' = "done" THEN "returned" ELSE "running"]_vars

\* Both IRs came from the repeat_region features alone, in a record that
\* also has a misc_feature with a note
C7_Witness ==
    /\ Returned
    /\ BothResolved
    /\ ran = {"repeat"}
    /\ \E k \in 1..Len(features) : IsMisc(features[k]) /\ features[k].hasNote

\* C8 (as claimed): after the repeat-feature stage, an incomplete pair and no
\* misc_feature with a note make the call fail with the 'no note' failure.
C8_IncompleteWithoutNoteFails ==
    [][(pc = "note_check" /\ (IRa = None \/ IRb = None) /\ ~AnyMiscNote(features))
          => outcome' = FAIL_NO_NOTE]_vars

\* C8 (amended): the 'no note' failure is raised exactly when the repeat
\* stage found no IR at all and no misc_feature has a note; with one IR found
\* the call goes on to the next stage.
C8_EmptyWithoutNoteFails ==
    [][pc = "note_check" =>
          IF IRa = None /\ IRb = None /\ ~AnyMiscNote(features)
          THEN outcome' = FAIL_NO_NOTE /\ pc' = "done"
          ELSE outcome' = "running" /\ pc' = "misc" /\ IRa' = IRa /\ IRb' = IRb]_vars

\* The call has failed for want of a note on a record that has a misc_feature
C8_Witness ==
    /\ pc = "done"
    /\ outcome = FAIL_NO_NOTE
    /\ ran = {"repeat"}
    /\ \E k \in 1..Len(features) : IsMisc(features[k])
    /\ \E k \in 1..Len(features) : IsRepeat(features[k])

\* C9 (as claimed): at the single-copy step with an incomplete pair, the 'no
\* single-copy features' failure is raised when there is no misc_feature
\* without pseudo and both slots are empty; otherwise the builder runs and
\* nothing is raised at this step.
C9_SingleCopyStep ==
    [][(pc = "single_copy" /\ (IRa = None \/ IRb = None)) =>
          IF Len(all_mf_no_pseudo(features)) = 0 /\ IRa = None /\ IRb = None
          THEN outcome' = FAIL_NO_SC /\ ran' = ran
          ELSE "single_copy" \in ran' /\ outcome' = "running"]_vars

-----------------------------------------------------------------------------
(* Properties of identify_irs_in_repeat_features (specification SpecRepeat) *)

\* The feature the first loop is at
Pass1Feature == features[Pass1List(features)[i]]

\* An eligible feature: rpt_type=inverted and longer than min_IR_len
Eligible(f) == IsInverted(f) /\ FLen(f) > min_IR_len

\* The note says which IR the feature is
NamesAnIR(f) == f.hasNote /\ (FactsOf[f.note].ira \/ FactsOf[f.note].irb)

\* C6: an eligible repeat_region whose note does not say which IR it is (or
\* that has no note) goes to IRb when IRb is unassigned, to IRa when IRb is
\* assigned and IRa is not, and nowhere when both are assigned.
C6_OrdinalFallback ==
    [][(/\ pc = "pass1"
        /\ i <= Len(Pass1List(features))
        /\ Eligible(Pass1Feature)
        /\ ~NamesAnIR(Pass1Feature))
       => /\ IRb = None => IRb' = Ref(Pass1List(features)[i]) /\ IRa' = IRa
          /\ (IRb # None /\ IRa = None) => IRa' = Ref(Pass1List(features)[i]) /\ IRb' = IRb
          /\ (IRb # None /\ IRa # None) => IRa' = IRa /\ IRb' = IRb]_vars

\* Two eligible features without identifying notes have been scanned: the
\* first went to IRb and the second to IRa
C6_Witness ==
    /\ pc = "pass1"
    /\ i = 3
    /\ IRb = Ref(1)
    /\ IRa = Ref(2)
    /\ Eligible(features[1]) /\ ~NamesAnIR(features[1])
    /\ Eligible(features[2]) /\ ~NamesAnIR(features[2])

-----------------------------------------------------------------------------
(* Properties of identify_junction (specification SpecJunction) *)

\* C10: a feature of length >= 3 is classified -1 (not a junction), whatever
\* its note says and wherever it lies.
C10_LongFeatureUnclassifiable ==
    (pc = "done" /\ FLen(features[1]) >= 3) =>
        outcome = "returned" /\ junction_type = -1

\* A feature of length 3 whose note is a hard junction identifier, near the
\* end of the record, has been classified
C10_Witness ==
    /\ pc = "done"
    /\ FLen(features[1]) = 3
    /\ features[1].hasNote
    /\ FactsOf[features[1].note].jlaHard
    /\ NearRecordEnd(features[1], rec_len)
    /\ junction_type = -1

\* The junction roles of which the note holds a hard identifier
HardRoles(nf) ==
    (IF nf.jlbHard THEN {0} ELSE {}) \cup (IF nf.jsbHard THEN {1} ELSE {})
    \cup (IF nf.jsaHard THEN {2} ELSE {}) \cup (IF nf.jlaHard THEN {3} ELSE {})

\* The feature classified, and what its note holds
Classified == pc = "done" /\ FLen(features[1]) < 3 /\ features[1].hasNote
ClassifiedFacts == FactsOf[features[1].note]
ClassifiedNearEnd == features[1].start >= rec_len - 10 /\ features[1].start < rec_len

\* C11: a feature shorter than 3 whose note holds a hard identifier of
\* exactly one junction role is classified as that role, whatever soft
\* identifiers the note also holds and wherever the feature lies.
C11_HardIdentifierWins ==
    (Classified /\ Cardinality(HardRoles(ClassifiedFacts)) = 1)
    => outcome = "returned" /\ junction_type \in HardRoles(ClassifiedFacts)

\* A feature near the end of the record, whose note holds a hard identifier
\* of JLB and a soft identifier as well, has been classified JLB
C11_Witness ==
    /\ Classified
    /\ HardRoles(ClassifiedFacts) = {0}
    /\ ClassifiedFacts.lscSoft
    /\ ClassifiedNearEnd
    /\ junction_type = 0

\* C12: a feature shorter than 3 whose note holds no hard identifier and
\* whose soft candidates include JLA is classified JLA when its start lies in
\* [rec_len - 10, rec_len), however many soft candidates there are.
C12_JLANearRecordEnd ==
    (/\ Classified
     /\ HardRoles(ClassifiedFacts) = {}
     /\ ClassifiedFacts.lscSoft
     /\ ClassifiedNearEnd)
    => outcome = "returned" /\ junction_type = 3

\* A feature that starts exactly at rec_len - 10, with all four soft
\* candidates, has been classified JLA
C12_Witness ==
    /\ Classified
    /\ HardRoles(ClassifiedFacts) = {}
    /\ ClassifiedFacts.lscSoft
    /\ ClassifiedFacts.sscSoft
    /\ features[1].start = rec_len - 10
    /\ junction_type = 3

\* C13: a feature shorter than 3 whose note holds an LSC-IR and an SSC-IR
\* soft identifier and no hard identifier, and whose start is not within the
\* last 10 bases of the record, is classified Ambiguous (4).
C13_TwoSoftSetsAmbiguous ==
    (/\ Classified
     /\ HardRoles(ClassifiedFacts) = {}
     /\ ClassifiedFacts.lscSoft
     /\ ClassifiedFacts.sscSoft
     /\ ~ClassifiedNearEnd)
    => outcome = "returned" /\ junction_type = 4

\* A feature that starts at rec_len - 11, with both soft identifier sets in
\* its note, has been classified Ambiguous
C13_Witness ==
    /\ Classified
    /\ HardRoles(ClassifiedFacts) = {}
    /\ ClassifiedFacts.lscSoft
    /\ ClassifiedFacts.sscSoft
    /\ features[1].start = rec_len - 11
    /\ junction_type = 4

\* C14 (as claimed): identify_junction never raises; for every feature, with
\* or without a note, it returns one of the six classifications.
C14_NeverRaises ==
    pc = "done" => outcome = "returned" /\ junction_type \in {-1, 0, 1, 2, 3, 4}

-----------------------------------------------------------------------------
(* Properties of adjust_feature_location (specification SpecAdjust) *)

\* The argument of the call is a feature whose start and end are identical
PointFeature == features[1] # None /\ features[1].start = features[1].end

\* C15: the first call turns a feature with start = end into
\* (start - 1, end) with the same strand and leaves every other feature, and
\* None, as it is; every later call changes nothing.
C15_AdjustIdempotent ==
    [][pc = "adjust" =>
         /\ (i = 0 /\ PointFeature) =>
                /\ features'[1].start = features[1].start - 1
                /\ features'[1].end = features[1].end
                /\ features'[1].strand = features[1].strand
         /\ (i = 0 /\ ~PointFeature) => features' = features
         /\ i >= 1 => features' = features]_vars

\* The feature at (0, 0) on the reverse strand has been adjusted twice
C15_Witness ==
    /\ i = 2
    /\ features[1] # None
    /\ features[1].start = -1
    /\ features[1].end = 0
    /\ features[1].strand = -1

-----------------------------------------------------------------------------
(* Properties of infer_irs_from_junctions (specification SpecJunctionIRs) *)

\* Some misc_feature with a note is classified as junction type t
HasJunction(t) ==
    \E k \in 1..Len(features) :
        /\ IsMisc(features[k])
        /\ features[k].hasNote
        /\ IdentifyJunction(features[k], rec_len) = t

\* C16: infer_irs_from_junctions returns IRb set exactly when a JLB and a
\* JSB junction were both classified, and IRa set exactly when a JSA junction
\* was classified; it raises nothing.
C16_JunctionSlots ==
    [][pc = "infer" =>
         /\ pc' = "returned"
         /\ (IRb' # None) <=> (HasJunction(0) /\ HasJunction(1))
         /\ (IRa' # None) <=> HasJunction(2)]_vars

\* Given JLB and JSB (and JLA) but no JSA, IRb was built and IRa was not
C16_Witness ==
    /\ pc = "returned"
    /\ HasJunction(0)
    /\ HasJunction(1)
    /\ HasJunction(3)
    /\ ~HasJunction(2)
    /\ IRb # None
    /\ IRa = None

-----------------------------------------------------------------------------
(* Properties of infer_irs_from_single_copy_regions and                    *)
(* identify_irs_in_misc_features (specification SpecFill)                  *)

\* The LSC and SSC features the single-copy stage finds in the record
RegionsFound == SingleCopyScan(features, WithNote(features, all_mf_no_pseudo(features)), NoRegions)
BothRegions(sc) == sc.lsc # 0 /\ sc.ssc # 0
NonOverlapping(lsc, ssc) == lsc.end <= ssc.start \/ ssc.end <= lsc.start
RegionLens(sc) == FLen(features[sc.lsc]) + FLen(features[sc.ssc])

\* The step is a call of infer_irs_from_single_copy_regions
SingleCopyCall == pc = "fill" /\ ran' = {"single_copy"}

ComplementArcsOf(sc) ==
    (/\ SingleCopyCall
     /\ IRa = None
     /\ IRb = None
     /\ BothRegions(sc)
     /\ NonOverlapping(features[sc.lsc], features[sc.ssc]))
    => /\ pc' = "returned"
       /\ IRa' # None
       /\ IRb' # None
       /\ (IRa'.end - IRa'.start) + (IRb'.end - IRb'.start) + RegionLens(sc) = rec_len

\* C17 (as claimed): given non-overlapping LSC and SSC features and an empty
\* pair, infer_irs_from_single_copy_regions returns two intervals whose
\* lengths add up, with those of LSC and SSC, to the length of the record.
C17_ComplementArcs == [][ComplementArcsOf(RegionsFound)]_vars

ValidArcsOf(sc) ==
    (SingleCopyCall /\ BothRegions(sc))
    => /\ pc' = "returned"
       /\ IRa' # None => IRa'.start <= IRa'.end
       /\ IRb' # None => IRb'.start <= IRb'.end

\* C18 (as claimed): for every LSC and SSC inside the record, in either
\* order and wherever they start, infer_irs_from_single_copy_regions builds
\* its intervals with start <= end, wrapping through the end of the record.
C18_NoNegativeArc == [][ValidArcsOf(RegionsFound)]_vars

\* C19: neither identify_irs_in_misc_features nor
\* infer_irs_from_single_copy_regions changes a slot that is set on entry.
C19_SetSlotsKept ==
    [][pc = "fill" =>
         /\ IRa # None => IRa' = IRa
         /\ IRb # None => IRb' = IRb]_vars

\* infer_irs_from_single_copy_regions has returned the IRa it was given and
\* an IRb it built
C19_Witness ==
    /\ pc = "returned"
    /\ ran = {"single_copy"}
    /\ IRa = EntryIRa
    /\ IRb # None
    /\ IRb # EntryIRb

-----------------------------------------------------------------------------
(* Properties of the calling script (specification SpecAnalyze) *)

\* C20: when the IRs are written, the reverse-complement flag is set exactly
\* when both IRa and IRb were found and IRa scored strictly higher against
\* reverse-complemented IRb than against IRb as given; on equal scores, and
\* with one IR only, the flag is false.
C20_ReverseComplementFlag ==
    pc \in {"write", "done"} =>
        (rev_comp <=> (IRa # None /\ IRb # None /\ score_RC > score_noRC))

\* Both IRs were found, the two scores were equal and not zero, and the
\* flag was left false
C20_Witness ==
    /\ pc = "done"
    /\ IRa # None
    /\ IRb # None
    /\ score_RC = score_noRC
    /\ score_RC > 0
    /\ ~rev_comp

-----------------------------------------------------------------------------
(* Further properties of infer_irs_from_junctions (specification            *)
(* SpecJunctionIRs)                                                          *)

IsJunctionAt(k, t) ==
    /\ IsMisc(features[k])
    /\ features[k].hasNote
    /\ IdentifyJunction(features[k], rec_len) = t

\* The feature the scan leaves in the junction variable of type t: the last
\* one classified t
LastJunction(t) ==
    features[CHOOSE k \in 1..Len(features) :
                 /\ IsJunctionAt(k, t)
                 /\ \A j \in (k + 1)..Len(features) : ~IsJunctionAt(j, t)]

\* The start of a junction once adjust_feature_location has been applied
AdjustedStart(f) == IF f.start = f.end THEN f.start - 1 ELSE f.start

IRbSpans(x, jlb, jsb) ==
    /\ x.src = "built"
    /\ x.strand = 1
    /\ x.start <= x.end
    /\ IF AdjustedStart(jlb) < AdjustedStart(jsb)
       THEN x.start = jlb.end - 1 /\ x.end = AdjustedStart(jsb) + 1
       ELSE x.start = jsb.end - 1 /\ x.end = AdjustedStart(jlb) + 1

\* C21: with JLB and JSB both found, the IRb that infer_irs_from_junctions
\* builds has strand +1 and runs from end - 1 of the junction with the
\* smaller start to start + 1 of the other, on the adjusted locations, and
\* its start is not beyond its end.
C21_IRbFromJunctions ==
    [][(pc = "infer" /\ HasJunction(0) /\ HasJunction(1))
          => IRbSpans(IRb', LastJunction(0), LastJunction(1))]_vars

\* IRb was built from a JSB that lies before a point JLB
C21_Witness ==
    /\ pc = "returned"
    /\ HasJunction(0)
    /\ HasJunction(1)
    /\ IRb # None
    /\ IRb.start = LastJunction(1).end - 1
    /\ IRb.end = RecLen - 2

IRaAsClaimed(x, jsa, n) ==
    /\ x.src = "built"
    /\ IF HasJunction(1)
       THEN \/ x.start = jsa.end - 1 /\ x.end = n
            \/ x.start = 0 /\ x.end = jsa.end - 1
       ELSE x.start = jsa.end - 1 /\ x.end = n

\* C22 (as claimed): with JSA found and JLA not, one end of IRa is JSA's
\* end - 1; the other is the end of the record or position 0 when JSB is
\* found, and the end of the record when it is not.
C22_IRaEndpointAtJSAEnd ==
    [][(pc = "infer" /\ HasJunction(2) /\ ~HasJunction(3))
          => IRaAsClaimed(IRa', LastJunction(2), rec_len)]_vars

IRaAsBuilt(x, jsa, n) ==
    /\ x.src = "built"
    /\ IF HasJunction(1) /\ ~(AdjustedStart(LastJunction(1)) < AdjustedStart(jsa))
       THEN x.start = 0 /\ x.end = AdjustedStart(jsa) + 1
       ELSE x.start = jsa.end - 1 /\ x.end = n

\* C22 (amended): with JSA found and JLA not, IRa runs from JSA's end - 1 to
\* the end of the record, unless JSB is found and does not start before JSA:
\* then IRa runs from position 0 to JSA's start + 1.
C22_IRaWithoutJLA ==
    [][(pc = "infer" /\ HasJunction(2) /\ ~HasJunction(3))
          => IRaAsBuilt(IRa', LastJunction(2), rec_len)]_vars

\* IRa was built from position 0, from a JSA that lies before JSB
C22_Witness ==
    /\ pc = "returned"
    /\ HasJunction(1)
    /\ HasJunction(2)
    /\ ~HasJunction(3)
    /\ IRa # None
    /\ IRa.start = 0
    /\ IRa.end = LastJunction(2).start + 1

-----------------------------------------------------------------------------
(* Further properties of identify_junction (specification SpecJunction) *)

\* No hard identifier, and the soft identifiers of one side only: exactly two
\* candidates
TwoCandidates ==
    /\ Classified
    /\ HardRoles(ClassifiedFacts) = {}
    /\ ClassifiedFacts.lscSoft # ClassifiedFacts.sscSoft
    /\ ~(ClassifiedFacts.lscSoft /\ ClassifiedNearEnd)

\* C23 (as claimed): with no hard match and exactly two soft candidates, the
\* exception for JLA near the record end aside, identify_junction returns the
\* first candidate in the order JLB, JSB, JSA, JLA: JLB for an LSC-side note,
\* JSB for a note with only 'ssc-ir'.
C23_FirstOfTwoCandidates ==
    TwoCandidates =>
        /\ outcome = "returned"
        /\ junction_type = IF ClassifiedFacts.lscSoft THEN 0 ELSE 1

\* C23 (amended): the first candidate is returned only when JLA is one of
\* the two (JLB for an LSC-side note away from the record end); the two
\* SSC-side candidates, JSB and JSA, are left Ambiguous (4).
C23_TwoCandidates ==
    TwoCandidates =>
        /\ outcome = "returned"
        /\ junction_type = IF ClassifiedFacts.lscSoft THEN 0 ELSE 4

\* A point feature whose note holds an SSC-side soft identifier only has
\* been classified Ambiguous
C23_Witness ==
    /\ TwoCandidates
    /\ ClassifiedFacts.sscSoft
    /\ FLen(features[1]) = 0
    /\ junction_type = 4

\* C30: for a note without any hard identifier the soft candidates are none,
\* JLB and JLA, JSB and JSA, or all four; never a single one.
C30_CandidateSets ==
    (Classified /\ HardRoles(ClassifiedFacts) = {})
    => PossibleJunctions(ClassifiedFacts) \in { <<>>, <<0, 3>>, <<1, 2>>, <<0, 1, 2, 3>> }

\* A feature whose note holds only an LSC-side soft identifier, with the two
\* candidates JLB and JLA, has been classified
C30_Witness ==
    /\ Classified
    /\ HardRoles(ClassifiedFacts) = {}
    /\ PossibleJunctions(ClassifiedFacts) = <<0, 3>>
    /\ junction_type \in {0, 3}

-----------------------------------------------------------------------------
(* Further properties of identify_irs_in_repeat_features (specification     *)
(* SpecRepeat)                                                               *)

\* The second loop is at a feature that does not say which IR it is
Pass2Ordinal ==
    /\ pc = "pass2"
    /\ i <= Len(Pass2List(features))
    /\ ~NamesAnIR(features[Pass2List(features)[i]])

\* The slots after the ordinal rule has been applied to feature k
OrdinalRule(k) ==
    /\ IRb = None => IRb' = Ref(k) /\ IRa' = IRa
    /\ (IRb # None /\ IRa = None) => IRa' = Ref(k) /\ IRb' = IRb
    /\ (IRb # None /\ IRa # None) => IRa' = IRa /\ IRb' = IRb

\* The note holds a general IR identifier
NamesIRs(f) == f.hasNote /\ FactsOf[f.note].general

\* C24 (as claimed): in the second pass a feature without an IRa/IRb
\* identifier, with no note or with a note without any IR keyword included,
\* fills the first open slot, IRb before IRa.
C24_SecondPassOrdinal ==
    [][Pass2Ordinal => OrdinalRule(Pass2List(features)[i])]_vars

SecondPassRule(k) ==
    IF NamesIRs(features[k])
    THEN OrdinalRule(k)
    ELSE IRa' = IRa /\ IRb' = IRb

\* C24 (amended): in the second pass a feature without an IRa/IRb
\* identifier fills the first open slot, IRb before IRa, only when its note
\* holds a general IR identifier; a feature with no note, or with a note
\* without any IR keyword, is passed over.
C24_SecondPassGeneralOnly ==
    [][Pass2Ordinal => SecondPassRule(Pass2List(features)[i])]_vars

\* The second pass has passed over a feature without a note and then given
\* IRb to a feature whose note reads 'inverted repeat'
C24_Witness ==
    /\ pc = "pass2"
    /\ i = 3
    /\ Len(Pass2List(features)) >= 2
    /\ ~features[Pass2List(features)[1]].hasNote
    /\ NamesIRs(features[Pass2List(features)[2]])
    /\ ~NamesAnIR(features[Pass2List(features)[2]])
    /\ IRb = Ref(Pass2List(features)[2])
    /\ IRa = None

ScannedFeature ==
    IF pc = "pass1" THEN features[Pass1List(features)[i]] ELSE features[Pass2List(features)[i]]

NamesIRa(f) == f.hasNote /\ FactsOf[f.note].ira
NamesIRb(f) == f.hasNote /\ FactsOf[f.note].irb /\ ~FactsOf[f.note].ira

-----------------------------------------------------------------------------
(* Further properties of identify_irs_in_misc_features and                  *)
(* infer_irs_from_single_copy_regions (specification SpecFill)              *)

\* The note of the feature holds a token of the junction blacklist
Blacklisted(f) == f.hasNote /\ ContainsAny(Lower(Chars[f.note]), blacklist)

NotABlacklistedFeature(x) == x.src = "feature" => ~Blacklisted(features[x.idx])

NoBlacklistedRegion(sc) ==
    /\ sc.lsc # 0 => ~Blacklisted(features[sc.lsc])
    /\ sc.ssc # 0 => ~Blacklisted(features[sc.ssc])

\* C25: a misc_feature whose note holds a junction blacklist token is never
\* taken as IRa or IRb by identify_irs_in_misc_features and never as LSC or
\* SSC by infer_irs_from_single_copy_regions, whatever else its note holds.
C25_BlacklistedNeverSelected ==
    /\ NotABlacklistedFeature(IRa)
    /\ NotABlacklistedFeature(IRb)
    /\ NoBlacklistedRegion(RegionsFound)

\* identify_irs_in_misc_features has returned IRb from the second feature of
\* a record whose first feature is long, names IRb and LSC, and is blacklisted
C25_Witness ==
    /\ pc = "returned"
    /\ ran = {"misc"}
    /\ Len(features) >= 2
    /\ Blacklisted(features[1])
    /\ FactsOf[features[1].note].irb
    /\ FactsOf[features[1].note].lsc
    /\ FLen(features[1]) > 100
    /\ IRb = Ref(2)

-----------------------------------------------------------------------------
(* Further properties of identify_inverted_repeats (specification Spec)     *)

\* The direct-match stages and the sanity check after them are over
PastDirectMatch ==
    \/ pc = "junctions"
    \/ pc = "sanity2"
    \/ pc = "single_copy"
    \/ pc = "sanity3"
    \/ pc = "final"

\* C26: the pipeline only advances: a slot filled by the direct-match stages
\* that has passed the sanity check holds the same feature in every later
\* step of the call, so the junction stage and the single-copy stage only
\* fill open slots.
C26_FilledSlotsAdvanceOnly ==
    [][PastDirectMatch => ((IRa # None => IRa' = IRa) /\ (IRb # None => IRb' = IRb))]_vars

SameInterval(a, b) ==
    /\ SlotStart(features, a) = SlotStart(features, b)
    /\ SlotEnd(features, a) = SlotEnd(features, b)

\* C28: in every returned pair with both slots set, IRa and IRb are two
\* different features of the record: never the same feature, and never the
\* same interval, in both slots.
C28_DistinctIRs ==
    (Returned /\ IRa # None /\ IRb # None) => (IRa # IRb /\ ~SameInterval(IRa, IRb))

-----------------------------------------------------------------------------
(* identify_inverted_repeats called twice (specification SpecTwice)         *)

SecondCallOver == pc = "done" /\ invocation = 2

\* C27: two calls of identify_inverted_repeats in succession on the same
\* record object hand back the same outcome: the same IRa and IRb intervals,
\* or the same failure, also when the first call adjusts point junctions of
\* the record in place.
C27_SameOutcomeTwice ==
    SecondCallOver => ResultOf(features, IRa, IRb, outcome) = first_result

====
